---- MODULE Spec2Model ----
(***************************************************************************)
(* The parse-tree cache of the language server (server/src/trees.ts):      *)
(* class Trees keeps one Entry (version, tree, edits) per document URI in  *)
(* an LRUMap, records the edits of every change notification, and parses   *)
(* fresh or incrementally on demand.                                       *)
(*                                                                         *)
(* Collaborators that are not part of trees.ts are modelled at their       *)
(* interface: LRUMap (./utils/lruMap), DocumentStore (./documentStore),    *)
(* and the tree-sitter engine (Parser.parse, Tree.edit, Tree.delete).      *)
(* A tree is modelled by the text its nodes cover, one cell per character; *)
(* Tree.edit marks the edited range as Dirty, and an incremental parse     *)
(* reuses the cells of the old tree that are not Dirty and reads the rest  *)
(* from the new text.                                                      *)
(***************************************************************************)
EXTENDS Integers, Sequences, FiniteSets, TLC

\* ------------------------------------------------------------------ bounds

\* capacity of the cache; `size: 200` in the source, scaled down so that
\* eviction happens with three documents
CacheSize == 2
\* tree handles the engine produces in one run
MaxTrees == 3
\* changes the Document Source makes in one run: with all the documents,
\* and with a single document
MaxEdits == 1
MaxEditsOne == 3
\* changes carried by one change notification
MaxChanges == 2
\* length of a document's text
MaxLen == 2
\* getParseTree(uri) requests suspended on retrieve() at one time
MaxPending == 1

\* documents the Document Source can resolve, and URIs it cannot
Uris == {"a", "b", "c"}
EditUris == {"a"}
MissingUris == {"m"}
\* URIs getParseTree(uri) is called with
AsyncUris == {"a", "m"}
\* the text every document starts with, and the characters typed into it
InitText == <<"x">>
\* the text of a document of two lines, the first one empty
LinesText == <<"\n">>
TypedTexts == {<<>>, <<"y">>}
\* a cell of a tree that Tree.edit invalidated
Dirty == "?"

Min(a, b) == IF a < b THEN a ELSE b

VARIABLES
    docs,       \* DocumentStore: uri -> [version, text]
    cache,      \* Trees._cache: entries [key, value], least recently used first
    released,   \* tree handle -> number of Tree.delete() calls on it (2 = more than one)
    nextTree,   \* the next handle the engine hands out
    attached,   \* the onDidChangeContent2 listener of Trees is registered
    pending,    \* URIs of getParseTree(uri) calls suspended on retrieve()
    budget,     \* changes the Document Source has yet to make
    last,       \* what the latest operation did and returned
    sinceParse, \* history: uri -> edit batches notified to Trees since the tree of its entry was produced
    accessOrder,\* history: keys in the cache, in the order of their latest get/set
    served      \* history: uri -> the tree the latest getParseTree of uri returned, 0 once
                \*   the document changed or its entry left the cache

vars == <<docs, cache, released, nextTree, attached, pending, budget, last,
          sinceParse, accessOrder, served>>

\* ------------------------------------------------------------ TextDocument

\* TextDocument.positionAt: the (line, character) of an offset
RECURSIVE LineStart(_, _)
LineStart(text, offset) ==
    IF offset = 0 THEN 0
    ELSE IF text[offset] = "\n" THEN offset
    ELSE LineStart(text, offset - 1)

RECURSIVE LineCount(_, _)
LineCount(text, offset) ==
    IF offset = 0 THEN 0
    ELSE LineCount(text, offset - 1) + (IF text[offset] = "\n" THEN 1 ELSE 0)

PositionAt(text, offset) ==
    LET o == Min(offset, Len(text))
    IN  [line |-> LineCount(text, o), character |-> o - LineStart(text, o)]

\* the text after one change: the range is replaced by change.text
ApplyChange(text, change) ==
    SubSeq(text, 1, change.rangeOffset)
        \o change.text
        \o SubSeq(text, change.rangeOffset + change.rangeLength + 1, Len(text))

RECURSIVE ApplyChanges(_, _)
ApplyChanges(text, changes) ==
    IF changes = <<>> THEN text
    ELSE ApplyChanges(ApplyChange(text, Head(changes)), Tail(changes))

\* the changes {range, rangeOffset, rangeLength, text} a document of this
\* text can undergo: a range of the text replaced by a typed text, one of
\* the two not empty
ChangesOf(text) ==
    { [range |-> [start |-> PositionAt(text, o), end |-> PositionAt(text, o + l)],
       rangeOffset |-> o, rangeLength |-> l, text |-> t] :
        <<o, l, t>> \in { olt \in (0..Len(text)) \X (0..Len(text)) \X TypedTexts :
                            /\ olt[1] + olt[2] <= Len(text)
                            /\ olt[2] + Len(olt[3]) > 0
                            /\ Len(text) - olt[2] + Len(olt[3]) <= MaxLen } }

\* the change sequences of one notification: each change applies to the text
\* the previous changes of the notification left
RECURSIVE ChangeSeqs(_, _)
ChangeSeqs(text, n) ==
    IF n = 0 THEN {<<>>}
    ELSE {<<>>} \cup
         UNION { { <<ch>> \o rest : rest \in ChangeSeqs(ApplyChange(text, ch), n - 1) } :
                 ch \in ChangesOf(text) }

\* the change lists of the notifications a document of this text can undergo
Notifications(text) == ChangeSeqs(text, MaxChanges) \ {<<>>}

\* the TextDocumentChange2 event of a notification: the document as the
\* changes left it, and the changes
ChangeEvent(uri, doc, changes) ==
    [document |-> [uri |-> uri, version |-> doc.version + 1,
                   text |-> ApplyChanges(doc.text, changes)],
     changes |-> changes]

\* ------------------------------------------------------------ Trees._asEdits

AsTsPoint(position) == [row |-> position.line, column |-> position.character]

\* AsEdit as it would be with the old end taken from the length of the new text
AsEditOldEndFromText(event, change) ==
    [startPosition |-> AsTsPoint(change.range.start),
     oldEndPosition |-> AsTsPoint(change.range.end),
     newEndPosition |-> AsTsPoint(PositionAt(event.document.text,
                            change.rangeOffset + Len(change.text))),
     startIndex |-> change.rangeOffset,
     oldEndIndex |-> change.rangeOffset + Len(change.text),
     newEndIndex |-> change.rangeOffset + Len(change.text)]

AsEdit(event, change) ==
    [startPosition |-> AsTsPoint(change.range.start),
     oldEndPosition |-> AsTsPoint(change.range.end),
     newEndPosition |-> AsTsPoint(PositionAt(event.document.text,
                            change.rangeOffset + Len(change.text))),
     startIndex |-> change.rangeOffset,
     oldEndIndex |-> change.rangeOffset + change.rangeLength,
     newEndIndex |-> change.rangeOffset + Len(change.text)]

AsEdits(event) == [i \in 1..Len(event.changes) |-> AsEdit(event, event.changes[i])]

\* Array.prototype.flat of Edit[][]
RECURSIVE Flat(_)
Flat(batches) ==
    IF batches = <<>> THEN <<>> ELSE Head(batches) \o Flat(Tail(batches))

\* ------------------------------------------------------------ parsing engine

\* n cells that Tree.edit invalidated
DirtyCells(n) == [i \in 1..n |-> Dirty]

\* Tree.edit(delta): the cells of the old range give way to as many Dirty
\* cells as the new range has
TreeEdit(tree, delta) ==
    LET s == Min(delta.startIndex, Len(tree.cells))
        e == Min(delta.oldEndIndex, Len(tree.cells))
    IN  [tree EXCEPT !.cells = SubSeq(tree.cells, 1, s)
                                  \o DirtyCells(delta.newEndIndex - delta.startIndex)
                                  \o SubSeq(tree.cells, e + 1, Len(tree.cells))]

RECURSIVE TreeEditAll(_, _)
TreeEditAll(tree, deltas) ==
    IF deltas = <<>> THEN tree
    ELSE TreeEditAll(TreeEdit(tree, Head(deltas)), Tail(deltas))

\* Parser.parse(text): a new tree over the text
ParseText(id, text) == [id |-> id, cells |-> text]

\* Parser.parse(text, oldTree): a new tree that keeps what oldTree has not
\* marked as edited and reads the rest from the text
ParseIncr(id, text, oldTree) ==
    [id |-> id,
     cells |-> [i \in 1..Len(text) |->
                  IF i <= Len(oldTree.cells) /\ oldTree.cells[i] # Dirty
                  THEN oldTree.cells[i] ELSE text[i]]]

\* Tree.delete(): one more release of the handle
TreeDelete(rel, id) == [rel EXCEPT ![id] = IF @ = 0 THEN 1 ELSE 2]

\* ------------------------------------------------------------------ LRUMap

LRUHas(c, k) == \E i \in 1..Len(c) : c[i].key = k

LRURemove(c, k) == SelectSeq(c, LAMBDA e : e.key # k)

LRUFind(c, k) == SelectSeq(c, LAMBDA e : e.key = k)

\* LRUGet as it would be if get left the recency of the key alone
LRUGetKeepsOrder(c, k) ==
    [found |-> [i \in 1..Len(LRUFind(c, k)) |-> LRUFind(c, k)[i].value],
     cache |-> c]

\* get(key): the value, if any, and the key becomes the most recently used
LRUGet(c, k) ==
    [found |-> [i \in 1..Len(LRUFind(c, k)) |-> LRUFind(c, k)[i].value],
     cache |-> LRURemove(c, k) \o LRUFind(c, k)]

\* set(key, value): inserts or replaces, the key becomes the most recently
\* used; an insertion that would exceed the capacity first evicts the least
\* recently used entry and passes it to the dispose hook
LRUSet(c, k, v) ==
    IF LRUHas(c, k)
    THEN [cache |-> LRURemove(c, k) \o <<[key |-> k, value |-> v]>>, disposed |-> <<>>]
    ELSE IF Len(c) >= CacheSize
    THEN [cache |-> Tail(c) \o <<[key |-> k, value |-> v]>>, disposed |-> <<Head(c)>>]
    ELSE [cache |-> c \o <<[key |-> k, value |-> v]>>, disposed |-> <<>>]

\* delete(key): the entry is removed and passed to the dispose hook
LRUDelete(c, k) == [cache |-> LRURemove(c, k), disposed |-> LRUFind(c, k)]

\* the entry object of a key is mutated in place
LRUMutate(c, k, v) ==
    [i \in 1..Len(c) |-> IF c[i].key = k THEN [c[i] EXCEPT !.value = v] ELSE c[i]]

\* values(): the values, least recently used first
LRUValues(c) == [i \in 1..Len(c) |-> c[i].value]

Keys(entries) == [i \in 1..Len(entries) |-> entries[i].key]

TreeIds(entries) == [i \in 1..Len(entries) |-> entries[i].value.tree.id]

\* ------------------------------------------------------------------ Trees

\* the dispose hook of Trees._cache: value.tree.delete() for every entry
RECURSIVE CacheDispose(_, _)
CacheDispose(rel, entries) ==
    IF entries = <<>> THEN rel
    ELSE CacheDispose(TreeDelete(rel, Head(entries).value.tree.id), Tail(entries))

\* new Entry(version, tree, edits)
Entry(version, tree, edits) == [version |-> version, tree |-> tree, edits |-> edits]

\* OnDidChangeContent2 as it would be if the listener put the edits in front
\* (unshift) instead of pushing them
OnDidChangeContent2Front(c, e) ==
    LET g == LRUGet(c, e.document.uri)
    IN  IF g.found # <<>>
        THEN LRUMutate(g.cache, e.document.uri,
                       [g.found[1] EXCEPT !.edits = <<AsEdits(e)>> \o @])
        ELSE g.cache

\* OnDidChangeContent2 as it would be if, for a document without an entry, the
\* listener pushed the edits onto the most recently used entry
OnDidChangeContent2AnyEntry(c, e) ==
    LET g == LRUGet(c, e.document.uri)
    IN  IF g.found # <<>>
        THEN LRUMutate(g.cache, e.document.uri,
                       [g.found[1] EXCEPT !.edits = Append(@, AsEdits(e))])
        ELSE IF g.cache # <<>>
        THEN [g.cache EXCEPT ![Len(g.cache)].value.edits = Append(@, AsEdits(e))]
        ELSE g.cache

\* the listener of onDidChangeContent2: the edits of the event are pushed
\* onto the entry of the document, if the cache has one
OnDidChangeContent2(c, e) ==
    LET g == LRUGet(c, e.document.uri)
    IN  IF g.found # <<>>
        THEN LRUMutate(g.cache, e.document.uri,
                       [g.found[1] EXCEPT !.edits = Append(@, AsEdits(e))])
        ELSE g.cache

\* Trees.dispose: item.tree.delete() for every value of the cache
RECURSIVE DisposeTrees(_, _)
DisposeTrees(rel, values) ==
    IF values = <<>> THEN rel
    ELSE DisposeTrees(TreeDelete(rel, Head(values).tree.id), Tail(values))

\* the ParseDone event as a subscriber sees it: the payload, and the entry the
\* cache holds for the document while the event fires
ParseDone(c, doc, tree) ==
    [uri |-> doc.uri, version |-> doc.version, tree |-> tree.id,
     entry |-> LRUGet(c, doc.uri).found]

\* ParseHit as it would be if a cache hit fired ParseDone as well
ParseHitFires(c, rel, nt, doc, info) ==
    [cache |-> c, released |-> rel, nextTree |-> nt,
     tree |-> info.tree.id, path |-> "hit", parses |-> 0,
     deleted |-> <<>>, folded |-> <<>>, evicted |-> <<>>,
     fired |-> <<ParseDone(c, doc, info.tree)>>]

\* _parse, cache hit: the tree of the entry, nothing else happens
ParseHit(c, rel, nt, doc, info) ==
    [cache |-> c, released |-> rel, nextTree |-> nt,
     tree |-> info.tree.id, path |-> "hit", parses |-> 0,
     deleted |-> <<>>, folded |-> <<>>, evicted |-> <<>>, fired |-> <<>>]

\* ParseFresh as it would be if the event fired before the entry is inserted
ParseFreshFiresFirst(c, rel, nt, doc) ==
    LET tree == ParseText(nt, doc.text)
        info == Entry(doc.version, tree, <<>>)
        s    == LRUSet(c, doc.uri, info)
    IN  [cache |-> s.cache, released |-> CacheDispose(rel, s.disposed), nextTree |-> nt + 1,
         tree |-> info.tree.id, path |-> "fresh", parses |-> 1,
         deleted |-> TreeIds(s.disposed), folded |-> <<>>, evicted |-> Keys(s.disposed),
         fired |-> <<ParseDone(c, doc, info.tree)>>]

\* _parse, never seen before: parse fresh, insert the entry, fire, return
ParseFresh(c, rel, nt, doc) ==
    LET tree == ParseText(nt, doc.text)
        info == Entry(doc.version, tree, <<>>)
        s    == LRUSet(c, doc.uri, info)
    IN  [cache |-> s.cache, released |-> CacheDispose(rel, s.disposed), nextTree |-> nt + 1,
         tree |-> info.tree.id, path |-> "fresh", parses |-> 1,
         deleted |-> TreeIds(s.disposed), folded |-> <<>>, evicted |-> Keys(s.disposed),
         fired |-> <<ParseDone(s.cache, doc, info.tree)>>]

\* ParseIncremental as it would be without `info.version = version`
ParseIncrementalKeepsVersion(c, rel, nt, doc, info) ==
    LET deltas  == Flat(info.edits)
        oldTree == TreeEditAll(info.tree, deltas)
        tree    == ParseIncr(nt, doc.text, oldTree)
        updated == Entry(info.version, tree, <<>>)
        c2      == LRUMutate(c, doc.uri, updated)
    IN  [cache |-> c2, released |-> TreeDelete(rel, oldTree.id), nextTree |-> nt + 1,
         tree |-> updated.tree.id, path |-> "incremental", parses |-> 1,
         deleted |-> <<oldTree.id>>, folded |-> deltas, evicted |-> <<>>,
         fired |-> <<ParseDone(c2, doc, updated.tree)>>]

\* ParseIncremental as it would be without `oldTree.delete()`
ParseIncrementalLeaksOld(c, rel, nt, doc, info) ==
    LET deltas  == Flat(info.edits)
        oldTree == TreeEditAll(info.tree, deltas)
        tree    == ParseIncr(nt, doc.text, oldTree)
        updated == Entry(doc.version, tree, <<>>)
        c2      == LRUMutate(c, doc.uri, updated)
    IN  [cache |-> c2, released |-> rel, nextTree |-> nt + 1,
         tree |-> updated.tree.id, path |-> "incremental", parses |-> 1,
         deleted |-> <<>>, folded |-> deltas, evicted |-> <<>>,
         fired |-> <<ParseDone(c2, doc, updated.tree)>>]

\* ParseIncremental as it would be without `info.edits.length = 0`
ParseIncrementalKeepsEdits(c, rel, nt, doc, info) ==
    LET deltas  == Flat(info.edits)
        oldTree == TreeEditAll(info.tree, deltas)
        tree    == ParseIncr(nt, doc.text, oldTree)
        updated == Entry(doc.version, tree, info.edits)
        c2      == LRUMutate(c, doc.uri, updated)
    IN  [cache |-> c2, released |-> TreeDelete(rel, oldTree.id), nextTree |-> nt + 1,
         tree |-> updated.tree.id, path |-> "incremental", parses |-> 1,
         deleted |-> <<oldTree.id>>, folded |-> deltas, evicted |-> <<>>,
         fired |-> <<ParseDone(c2, doc, updated.tree)>>]

\* ParseIncremental as it would be if `info.edits.length = 0` came before
\* `info.edits.flat()`
ParseIncrementalClearsFirst(c, rel, nt, doc, info) ==
    LET deltas  == Flat(<<>>)
        oldTree == TreeEditAll(info.tree, deltas)
        tree    == ParseIncr(nt, doc.text, oldTree)
        updated == Entry(doc.version, tree, <<>>)
        c2      == LRUMutate(c, doc.uri, updated)
    IN  [cache |-> c2, released |-> TreeDelete(rel, oldTree.id), nextTree |-> nt + 1,
         tree |-> updated.tree.id, path |-> "incremental", parses |-> 1,
         deleted |-> <<oldTree.id>>, folded |-> deltas, evicted |-> <<>>,
         fired |-> <<ParseDone(c2, doc, updated.tree)>>]

\* _parse, existing entry: apply the deltas to the old tree, clear the edits,
\* parse incrementally, store tree and version, delete the old tree, fire, return
ParseIncremental(c, rel, nt, doc, info) ==
    LET deltas  == Flat(info.edits)
        oldTree == TreeEditAll(info.tree, deltas)
        tree    == ParseIncr(nt, doc.text, oldTree)
        updated == Entry(doc.version, tree, <<>>)
        c2      == LRUMutate(c, doc.uri, updated)
    IN  [cache |-> c2, released |-> TreeDelete(rel, oldTree.id), nextTree |-> nt + 1,
         tree |-> updated.tree.id, path |-> "incremental", parses |-> 1,
         deleted |-> <<oldTree.id>>, folded |-> deltas, evicted |-> <<>>,
         fired |-> <<ParseDone(c2, doc, updated.tree)>>]

\* ParseCatch as it would be if the catch block left the cache alone
ParseCatchKeepsEntry(c, rel, nt, doc) ==
    [cache |-> c, released |-> rel, nextTree |-> nt,
     tree |-> 0, path |-> "failed", parses |-> 1,
     deleted |-> <<>>, folded |-> <<>>, evicted |-> <<>>, fired |-> <<>>]

\* ParseCatch as it would be if the catch block emptied the cache
ParseCatchClears(c, rel, nt, doc) ==
    [cache |-> <<>>, released |-> CacheDispose(rel, c), nextTree |-> nt,
     tree |-> 0, path |-> "failed", parses |-> 1,
     deleted |-> TreeIds(c), folded |-> <<>>, evicted |-> Keys(c), fired |-> <<>>]

\* _parse, the engine throws: the catch block deletes the entry of the
\* document and returns undefined
ParseCatch(c, rel, nt, doc) ==
    LET d == LRUDelete(c, doc.uri)
    IN  [cache |-> d.cache, released |-> CacheDispose(rel, d.disposed), nextTree |-> nt,
         tree |-> 0, path |-> "failed", parses |-> 1,
         deleted |-> TreeIds(d.disposed), folded |-> <<>>, evicted |-> Keys(d.disposed),
         fired |-> <<>>]

\* Parse as it would be without the version test: every call parses
ParseNoHit(c, rel, nt, doc, throws) ==
    LET g == LRUGet(c, doc.uri)
    IN  IF throws THEN ParseCatch(g.cache, rel, nt, doc)
        ELSE IF g.found = <<>> THEN ParseFresh(g.cache, rel, nt, doc)
        ELSE ParseIncremental(g.cache, rel, nt, doc, g.found[1])

\* Trees._parse(document); throws tells whether the engine throws in this call
Parse(c, rel, nt, doc, throws) ==
    LET g == LRUGet(c, doc.uri)
    IN  IF g.found # <<>> /\ g.found[1].version = doc.version
        THEN ParseHit(g.cache, rel, nt, doc, g.found[1])
        ELSE IF throws THEN ParseCatch(g.cache, rel, nt, doc)
        ELSE IF g.found = <<>> THEN ParseFresh(g.cache, rel, nt, doc)
        ELSE ParseIncremental(g.cache, rel, nt, doc, g.found[1])

\* ParseRetrieved as it would be without the `doc.exists` test: a document
\* that does not exist is parsed as an empty one
ParseRetrievedNoExistsTest(c, rel, nt, uri, d, throws) ==
    IF uri \notin DOMAIN d
    THEN Parse(c, rel, nt, [uri |-> uri, version |-> 0, text |-> <<>>], throws)
    ELSE Parse(c, rel, nt, [uri |-> uri, version |-> d[uri].version, text |-> d[uri].text],
               throws)

\* getParseTree(uri) after retrieve(uri) resolved: undefined if the document
\* does not exist, _parse(doc.document) otherwise
ParseRetrieved(c, rel, nt, uri, d, throws) ==
    IF uri \notin DOMAIN d
    THEN [cache |-> c, released |-> rel, nextTree |-> nt,
          tree |-> 0, path |-> "missing", parses |-> 0,
          deleted |-> <<>>, folded |-> <<>>, evicted |-> <<>>, fired |-> <<>>]
    ELSE Parse(c, rel, nt, [uri |-> uri, version |-> d[uri].version, text |-> d[uri].text],
               throws)

\* ------------------------------------------------------------------ history

\* the keys of the cache in the order of their latest access, kept from the
\* accesses alone: a get or set of a key makes it the latest, an insertion
\* beyond the capacity drops the earliest, a delete drops the key
OrderRemove(order, k) == SelectSeq(order, LAMBDA x : x # k)

OrderHas(order, k) == \E i \in 1..Len(order) : order[i] = k

OrderTouch(order, k) ==
    IF OrderHas(order, k) THEN OrderRemove(order, k) \o <<k>> ELSE order

OrderInsert(order, k) ==
    IF OrderHas(order, k) THEN OrderRemove(order, k) \o <<k>>
    ELSE IF Len(order) >= CacheSize THEN Tail(order) \o <<k>>
    ELSE order \o <<k>>

OrderAfter(order, uri, path) ==
    CASE path = "fresh" -> OrderInsert(order, uri)
      [] path = "failed" -> OrderRemove(order, uri)
      [] path \in {"hit", "incremental"} -> OrderTouch(order, uri)
      [] OTHER -> order

Quiet == [tree |-> 0, path |-> "none", parses |-> 0, version |-> 0,
          deleted |-> <<>>, folded |-> <<>>, evicted |-> <<>>, fired |-> <<>>]

\* what an operation on uri that ran _parse with result r did and returned
Observed(op, uri, version, r) ==
    [op |-> op, uri |-> uri, version |-> version, tree |-> r.tree, path |-> r.path,
     parses |-> r.parses, deleted |-> r.deleted, folded |-> r.folded,
     evicted |-> r.evicted, fired |-> r.fired]

SeqHas(seq, x) == \E i \in 1..Len(seq) : seq[i] = x

\* ------------------------------------------------------------------ actions

\* the state after new Trees(documents), the Document Source holding the
\* documents uris at version 1 and making at most n changes
Constructed(uris, n) ==
    /\ docs = [u \in uris |-> [version |-> 1, text |-> InitText]]
    /\ cache = <<>>
    /\ released = [t \in 1..MaxTrees |-> 0]
    /\ nextTree = 1
    /\ attached = TRUE
    /\ pending = {}
    /\ budget = n
    /\ last = Quiet @@ [op |-> "init", uri |-> ""]
    /\ sinceParse = [u \in uris |-> <<>>]
    /\ accessOrder = <<>>
    /\ served = [u \in uris |-> 0]

Init == Constructed(Uris, MaxEdits)

InitEdit == Constructed(EditUris, MaxEditsOne)

\* the same with a single document of two lines
InitLines ==
    /\ docs = [u \in EditUris |-> [version |-> 1, text |-> LinesText]]
    /\ cache = <<>>
    /\ released = [t \in 1..MaxTrees |-> 0]
    /\ nextTree = 1
    /\ attached = TRUE
    /\ pending = {}
    /\ budget = MaxEditsOne
    /\ last = Quiet @@ [op |-> "init", uri |-> ""]
    /\ sinceParse = [u \in EditUris |-> <<>>]
    /\ accessOrder = <<>>
    /\ served = [u \in EditUris |-> 0]

\* the effects of a call of _parse with result r for uri
Parsed(op, uri, r) ==
    /\ cache' = r.cache
    /\ released' = r.released
    /\ nextTree' = r.nextTree
    /\ last' = Observed(op, uri, IF uri \in DOMAIN docs THEN docs[uri].version ELSE 0, r)
    /\ sinceParse' = [u \in DOMAIN docs |->
                        IF \/ u = uri /\ r.path \in {"fresh", "incremental", "failed"}
                           \/ SeqHas(r.evicted, u)
                        THEN <<>> ELSE sinceParse[u]]
    /\ served' = [u \in DOMAIN docs |->
                    IF u = uri THEN r.tree
                    ELSE IF SeqHas(r.evicted, u) THEN 0 ELSE served[u]]
    /\ accessOrder' = OrderAfter(accessOrder, uri, r.path)

\* the Document Source applies the changes of a notification to a document
\* and emits the change event
DidChangeContent(uri, changes) ==
    LET e == ChangeEvent(uri, docs[uri], changes)
    IN  /\ Len(changes) <= budget
        /\ budget' = budget - Len(changes)
        /\ docs' = [docs EXCEPT ![uri] = [version |-> e.document.version,
                                          text |-> e.document.text]]
        /\ cache' = IF attached THEN OnDidChangeContent2(cache, e) ELSE cache
        /\ sinceParse' = IF attached /\ OrderHas(accessOrder, uri)
                         THEN [sinceParse EXCEPT ![uri] = Append(@, AsEdits(e))]
                         ELSE sinceParse
        /\ accessOrder' = IF attached THEN OrderTouch(accessOrder, uri) ELSE accessOrder
        /\ served' = [served EXCEPT ![uri] = 0]
        /\ last' = Quiet @@ [op |-> "change", uri |-> uri]
        /\ UNCHANGED <<released, nextTree, attached, pending>>

\* getParseTree(document)
GetParseTreeOfDocument(uri, throws) ==
    LET doc == [uri |-> uri, version |-> docs[uri].version, text |-> docs[uri].text]
        r   == Parse(cache, released, nextTree, doc, throws)
    IN  /\ r.nextTree <= MaxTrees + 1
        /\ Parsed("getParseTree", uri, r)
        /\ UNCHANGED <<docs, attached, pending, budget>>

\* getParseTree(uri): the call suspends on retrieve(uri)
GetParseTreeOfUri(uri) ==
    /\ uri \notin pending
    /\ Cardinality(pending) < MaxPending
    /\ pending' = pending \cup {uri}
    /\ UNCHANGED <<last, docs, cache, released, nextTree, attached, budget, sinceParse,
                   accessOrder, served>>

\* retrieve(uri) resolves and the continuation of getParseTree(uri) runs
RetrieveResolved(uri, throws) ==
    LET r == ParseRetrieved(cache, released, nextTree, uri, docs, throws)
    IN  /\ uri \in pending
        /\ r.nextTree <= MaxTrees + 1
        /\ pending' = pending \ {uri}
        /\ Parsed("getParseTree", uri, r)
        /\ UNCHANGED <<docs, attached, budget>>

\* Trees.dispose()
Dispose ==
    /\ released' = DisposeTrees(released, LRUValues(cache))
    /\ attached' = FALSE
    /\ last' = [Quiet EXCEPT !.deleted = TreeIds(cache)] @@ [op |-> "dispose", uri |-> ""]
    /\ UNCHANGED <<docs, cache, nextTree, pending, budget, sinceParse, accessOrder,
                   served>>

Next ==
    \/ \E uri \in DOMAIN docs : \E changes \in Notifications(docs[uri].text) :
            DidChangeContent(uri, changes)
    \/ \E uri \in DOMAIN docs, throws \in BOOLEAN : GetParseTreeOfDocument(uri, throws)
    \/ \E uri \in AsyncUris : GetParseTreeOfUri(uri)
    \/ \E uri \in AsyncUris, throws \in BOOLEAN : RetrieveResolved(uri, throws)
    \/ Dispose

\* the cache over all the documents
Spec == Init /\ [][Next]_vars

\* the edits of a single document
SpecEdit == InitEdit /\ [][Next]_vars

\* the edits of a single document of several lines
SpecLines == InitLines /\ [][Next]_vars

TypeOK ==
    /\ nextTree \in 1..(MaxTrees + 1)
    /\ budget >= 0
    /\ Len(cache) <= CacheSize
    /\ \A u \in DOMAIN docs : Len(docs[u].text) <= MaxLen

\* ------------------------------------------------------------------ properties

EntryOf(c, uri) == LRUFind(c, uri)

\* this step is a call of _parse for uri (getParseTree(document), or the
\* continuation of getParseTree(uri))
Called(uri) ==
    /\ last'.op = "getParseTree"
    /\ last'.uri = uri
    /\ pending' \subseteq pending

\* C1: a getParseTree of a document whose latest getParseTree returned a tree,
\* whose version has not changed since and whose entry has not left the cache
\* returns that same tree, invokes the engine zero times, deletes no tree and
\* leaves version, tree and edits of the entry as they are.
C1_CacheHit ==
    [][\A u \in DOMAIN docs :
        (Called(u) /\ served[u] # 0) =>
            /\ last'.tree = served[u]
            /\ last'.path = "hit"
            /\ last'.parses = 0
            /\ nextTree' = nextTree
            /\ last'.deleted = <<>>
            /\ released' = released
            /\ EntryOf(cache', u) = EntryOf(cache, u)
            /\ EntryOf(cache, u) # <<>>]_vars

C1_Witness ==
    /\ last.op = "getParseTree"
    /\ last.path = "hit"
    /\ last.tree # 0
    /\ last.tree = served[last.uri]

\* C2: whenever getParseTree returns a tree, the entry of the document holds
\* that tree and the version the document has at the return.
C2_ReturnedVersionMatches ==
    (last.op = "getParseTree" /\ last.tree # 0) =>
        /\ EntryOf(cache, last.uri) # <<>>
        /\ EntryOf(cache, last.uri)[1].value.tree.id = last.tree
        /\ EntryOf(cache, last.uri)[1].value.version = docs[last.uri].version
        /\ last.version = docs[last.uri].version

C2_Witness ==
    /\ last.op = "getParseTree"
    /\ last.path = "incremental"
    /\ last.tree # 0
    /\ docs[last.uri].version > 1

\* C3: Tree.delete() is invoked at most once on each tree handle.
C3_NoDoubleRelease == \A t \in DOMAIN released : released[t] <= 1

\* C4: a _parse of uri that throws returns undefined and leaves no entry for
\* uri; no entry appears for uri until the next _parse of uri; and that call
\* takes the fresh path (parse of the full current text, never the incremental
\* path nor a hit), its entry having no edits.
C4_ParseFailureRecovery ==
    [][\A u \in DOMAIN docs :
        /\ (Called(u) /\ last'.path = "failed") =>
              (last'.tree = 0 /\ EntryOf(cache', u) = <<>>)
        /\ (EntryOf(cache, u) = <<>> /\ ~Called(u)) => EntryOf(cache', u) = <<>>
        /\ (EntryOf(cache, u) = <<>> /\ Called(u)) =>
              /\ last'.path \in {"fresh", "failed"}
              /\ last'.path = "fresh" =>
                    /\ EntryOf(cache', u) # <<>>
                    /\ EntryOf(cache', u)[1].value =
                          Entry(docs[u].version, ParseText(last'.tree, docs[u].text), <<>>)
                    /\ last'.tree = nextTree
                    /\ last'.folded = <<>>]_vars

\* an incremental reparse threw: the entry is gone and undefined is returned
C4_Witness ==
    /\ last.op = "getParseTree"
    /\ last.path = "failed"
    /\ last.deleted # <<>>
    /\ last.tree = 0
    /\ EntryOf(cache, last.uri) = <<>>

\* C5: a _parse of A that throws leaves the entry of every other URI B as it
\* is (version, tree, edits), deletes no tree of B, and B is still served from
\* the cache.
C5_FailureIsolation ==
    [][\A a \in DOMAIN docs :
        (Called(a) /\ last'.path = "failed") =>
            \A b \in DOMAIN docs \ {a} :
                /\ EntryOf(cache', b) = EntryOf(cache, b)
                /\ served'[b] = served[b]
                /\ EntryOf(cache, b) # <<>> =>
                      released'[EntryOf(cache, b)[1].value.tree.id] =
                          released[EntryOf(cache, b)[1].value.tree.id]]_vars

\* the parse of one document threw while another is cached with pending edits
C5_Witness ==
    /\ last.op = "getParseTree"
    /\ last.path = "failed"
    /\ \E i \in 1..Len(cache) :
          /\ cache[i].key # last.uri
          /\ cache[i].value.edits # <<>>

\* C6: an insertion for a new URI into a full cache passes exactly one entry
\* to the dispose hook, the one whose latest get/set is the earliest; its tree
\* is deleted and the other entries stay. An insertion into a cache that is
\* not full evicts nothing.
C6_EvictsLeastRecentlyUsed ==
    [][\A u \in DOMAIN docs :
        (Called(u) /\ last'.path = "fresh") =>
            IF Len(cache) >= CacheSize
            THEN /\ last'.evicted = <<Head(accessOrder)>>
                 /\ last'.deleted = TreeIds(EntryOf(cache, Head(accessOrder)))
                 /\ Len(last'.deleted) = 1
                 /\ EntryOf(cache', Head(accessOrder)) = <<>>
                 /\ \A k \in DOMAIN docs \ {u, Head(accessOrder)} :
                        EntryOf(cache', k) = EntryOf(cache, k)
                 /\ Len(cache') = CacheSize
            ELSE /\ last'.evicted = <<>>
                 /\ last'.deleted = <<>>
                 /\ Len(cache') = Len(cache) + 1]_vars

\* a was parsed first, b second; a was accessed again; inserting c evicts b
C6_Witness ==
    /\ last.op = "getParseTree"
    /\ last.path = "fresh"
    /\ last.uri = "c"
    /\ last.evicted = <<"b">>
    /\ last.deleted = <<2>>
    /\ Keys(cache) = <<"a", "c">>
    /\ TreeIds(cache) = <<1, 3>>

\* C7: when ParseDone fires, the entry of the document holds the tree of the
\* payload and the version of the payload's document.
C7_ParseDoneAfterUpdate ==
    \A i \in 1..Len(last.fired) :
        /\ last.fired[i].entry # <<>>
        /\ last.fired[i].entry[1].tree.id = last.fired[i].tree
        /\ last.fired[i].entry[1].version = last.fired[i].version
        /\ last.fired[i].uri = last.uri
        /\ last.fired[i].tree = last.tree

C7_Witness ==
    /\ last.op = "getParseTree"
    /\ last.path = "fresh"
    /\ Len(last.fired) = 1
    /\ Len(cache) = CacheSize

\* C8: an incremental reparse folds exactly the edits of the notifications
\* received for the URI since the tree of its entry was produced, in arrival
\* order; and the entry holds exactly those edits until then.
C8_EditsInArrivalOrder ==
    [][\A u \in DOMAIN docs :
        /\ (Called(u) /\ last'.path = "incremental") => last'.folded = Flat(sinceParse[u])
        /\ EntryOf(cache', u) # <<>> =>
              EntryOf(cache', u)[1].value.edits = sinceParse'[u]]_vars

\* two notifications with different edits were folded by one reparse
C8_Witness ==
    /\ last.op = "getParseTree"
    /\ last.path = "incremental"
    /\ Len(last.folded) = 3
    /\ last.folded[1] # last.folded[2]
    /\ last.folded[2] # last.folded[3]

\* C9: the tree of an incremental reparse is the tree of a fresh parse of the
\* current text.
C9_IncrementalEquivalence ==
    (last.op = "getParseTree" /\ last.path = "incremental") =>
        /\ EntryOf(cache, last.uri) # <<>>
        /\ EntryOf(cache, last.uri)[1].value.tree =
              ParseText(last.tree, docs[last.uri].text)

\* C10: no tree that getParseTree returns, that ParseDone carries or that an
\* entry of the cache holds has been deleted.
C10_NoUseAfterRelease ==
    /\ \A i \in 1..Len(cache) : released[cache[i].value.tree.id] = 0
    /\ (last.op = "getParseTree" /\ last.tree # 0) => released[last.tree] = 0
    /\ \A i \in 1..Len(last.fired) : released[last.fired[i].tree] = 0


\* the entries of cache c that hold the tree handle t
Holders(c, t) == {i \in 1..Len(c) : c[i].value.tree.id = t}

\* C11: the tree of an entry that leaves the cache (LRU eviction, or the
\* delete after a parse failure), of an entry whose tree is replaced, and of
\* every entry at dispose() has been deleted; and every tree handle the engine
\* has produced is held by at most one entry, and by one unless it has been
\* deleted.
C11_NoLeak ==
    [][/\ \A i \in 1..Len(cache) :
            (\/ EntryOf(cache', cache[i].key) = <<>>
             \/ EntryOf(cache', cache[i].key)[1].value.tree.id # cache[i].value.tree.id
             \/ last'.op = "dispose" /\ pending' = pending)
                => released'[cache[i].value.tree.id] >= 1
       /\ \A t \in 1..(nextTree' - 1) :
            /\ Cardinality(Holders(cache', t)) <= 1
            /\ Holders(cache', t) = {} => released'[t] >= 1]_vars

\* an incremental reparse threw: the entry left the cache and its tree, held
\* by no entry any more, has been deleted once
C11_Witness ==
    /\ attached
    /\ last.op = "getParseTree"
    /\ last.path = "failed"
    /\ Len(last.deleted) = 1
    /\ released[last.deleted[1]] = 1
    /\ Holders(cache, last.deleted[1]) = {}
    /\ \E t \in 1..(nextTree - 1) : t # last.deleted[1] /\ Cardinality(Holders(cache, t)) = 1


\* this step is a change notification for uri
Changed(uri) == last'.op = "change" /\ last'.uri = uri /\ pending' = pending

\* this step is the continuation of a suspended getParseTree(uri)
Resolved(uri) == Called(uri) /\ uri \in pending /\ uri \notin pending'

\* C12: getParseTree(uri) for a URI whose document does not exist returns
\* undefined without a parse, without a ParseDone event, without deleting a
\* tree and without touching the cache; for a document that exists it does
\* and returns what getParseTree(document) does on the resolved document.
C12_MissingDocument ==
    [][\A u \in AsyncUris :
        Resolved(u) =>
            IF u \notin DOMAIN docs
            THEN /\ last'.tree = 0
                 /\ last'.path = "missing"
                 /\ last'.parses = 0
                 /\ last'.fired = <<>>
                 /\ last'.deleted = <<>>
                 /\ cache' = cache
                 /\ released' = released
                 /\ nextTree' = nextTree
            ELSE \E throws \in BOOLEAN :
                    LET r == Parse(cache, released, nextTree,
                                   [uri |-> u, version |-> docs[u].version,
                                    text |-> docs[u].text], throws)
                    IN  /\ cache' = r.cache
                        /\ released' = r.released
                        /\ nextTree' = r.nextTree
                        /\ last'.tree = r.tree
                        /\ last'.path = r.path
                        /\ last'.fired = r.fired]_vars

\* getParseTree of a missing document returned undefined while the cache
\* holds an entry with pending edits
C12_Witness ==
    /\ last.op = "getParseTree"
    /\ last.uri \in MissingUris
    /\ last.path = "missing"
    /\ last.tree = 0
    /\ \E i \in 1..Len(cache) : cache[i].value.edits # <<>>


\* this step is a call of dispose()
Disposed == last'.op = "dispose" /\ pending' = pending

\* C13: after dispose() every tree an entry of the cache held has been deleted
\* exactly once and the listener is detached; once it is detached no change
\* notification modifies the cache.
C13_DisposeReleasesOnce ==
    [][/\ Disposed =>
            /\ ~attached'
            /\ \A i \in 1..Len(cache) : released'[cache[i].value.tree.id] = 1
       /\ (~attached /\ \E u \in DOMAIN docs : Changed(u)) => cache' = cache]_vars

\* the same of the first call of dispose() on a Trees object only
C13_FirstDispose ==
    [][/\ (Disposed /\ attached) =>
            /\ ~attached'
            /\ \A i \in 1..Len(cache) : released'[cache[i].value.tree.id] = 1
       /\ (~attached /\ \E u \in DOMAIN docs : Changed(u)) => cache' = cache]_vars


\* the batches the listener pushes when every change of the list arrives in a
\* notification of its own
RECURSIVE Separately(_, _, _)
Separately(uri, doc, changes) ==
    IF changes = <<>> THEN <<>>
    ELSE LET e == ChangeEvent(uri, doc, <<Head(changes)>>)
         IN  <<AsEdits(e)>> \o Separately(uri, e.document, Tail(changes))

\* C14: the edits an entry holds for the next reparse after a notification
\* with several changes are the edits it would hold had every change arrived
\* in a notification of its own, in the same order.
C14_BatchingEquivalence ==
    [][\A u \in DOMAIN docs : \A changes \in Notifications(docs[u].text) :
        (DidChangeContent(u, changes) /\ attached /\ EntryOf(cache, u) # <<>>) =>
            Flat(EntryOf(cache', u)[1].value.edits) =
                Flat(EntryOf(cache, u)[1].value.edits \o Separately(u, docs[u], changes))]_vars

\* an Edit without its newEndPosition
WithoutNewEndPosition(edits) ==
    [i \in 1..Len(edits) |-> [edits[i] EXCEPT !.newEndPosition = [row |-> 0, column |-> 0]]]

\* the same up to newEndPosition: the two deliveries agree on every index and
\* on the start and old end positions
C14_AgreeButNewEndPosition ==
    [][\A u \in DOMAIN docs : \A changes \in Notifications(docs[u].text) :
        (DidChangeContent(u, changes) /\ attached /\ EntryOf(cache, u) # <<>>) =>
            WithoutNewEndPosition(Flat(EntryOf(cache', u)[1].value.edits)) =
                WithoutNewEndPosition(Flat(EntryOf(cache, u)[1].value.edits
                                           \o Separately(u, docs[u], changes)))]_vars


\* sequence p is a prefix of sequence q
IsPrefix(p, q) == Len(p) <= Len(q) /\ SubSeq(q, 1, Len(p)) = p

\* C16: an entry has edits only while its version is older than the version
\* of its document; the entry has no edits right after a fresh parse and
\* right after an incremental reparse; and while an entry stays in the cache
\* its edits only grow at the end, except in an incremental reparse, which
\* folds all of them.
C16_PendingEdits ==
    [][\A u \in DOMAIN docs :
        /\ (EntryOf(cache', u) # <<>> /\ EntryOf(cache', u)[1].value.edits # <<>>) =>
              EntryOf(cache', u)[1].value.version < docs'[u].version
        /\ (Called(u) /\ last'.path \in {"fresh", "incremental"}) =>
              /\ EntryOf(cache', u) # <<>>
              /\ EntryOf(cache', u)[1].value.edits = <<>>
        /\ (/\ EntryOf(cache, u) # <<>>
            /\ EntryOf(cache', u) # <<>>
            /\ ~IsPrefix(EntryOf(cache, u)[1].value.edits,
                         EntryOf(cache', u)[1].value.edits)) =>
              /\ Called(u)
              /\ last'.path = "incremental"
              /\ last'.folded = Flat(EntryOf(cache, u)[1].value.edits)]_vars

\* an entry parsed at version 3 holds the one batch notified since then, its
\* document being at version 4
C16_Witness ==
    /\ attached
    /\ last.op = "change"
    /\ EntryOf(cache, last.uri) # <<>>
    /\ Len(EntryOf(cache, last.uri)[1].value.edits) = 1
    /\ EntryOf(cache, last.uri)[1].value.version = 3
    /\ docs[last.uri].version = 4


\* C17: a change notification for a URI without an entry leaves the cache as
\* it is (no entry is created, no edit is recorded, no tree is parsed or
\* deleted); the URI stays without an entry until a getParseTree for it, and
\* that call, if it returns a tree, parsed the whole current text afresh and
\* left an entry without edits.
C17_ChangeWithoutEntry ==
    [][\A u \in DOMAIN docs :
        /\ (Changed(u) /\ EntryOf(cache, u) = <<>>) =>
              /\ cache' = cache
              /\ released' = released
              /\ nextTree' = nextTree
        /\ (EntryOf(cache, u) = <<>> /\ EntryOf(cache', u) # <<>>) => Called(u)
        /\ (EntryOf(cache, u) = <<>> /\ Called(u) /\ last'.tree # 0) =>
              /\ last'.path = "fresh"
              /\ last'.parses = 1
              /\ last'.folded = <<>>
              /\ last'.version = docs[u].version
              /\ EntryOf(cache', u) # <<>>
              /\ EntryOf(cache', u)[1].value.version = docs[u].version
              /\ EntryOf(cache', u)[1].value.tree.cells = docs[u].text
              /\ EntryOf(cache', u)[1].value.edits = <<>>]_vars

\* the first tree ever parsed is the fresh parse of a document that changed
\* while it had no entry
C17_Witness ==
    /\ last.op = "getParseTree"
    /\ last.path = "fresh"
    /\ nextTree = 2
    /\ docs[last.uri].version = 2
    /\ docs[last.uri].text # InitText
    /\ EntryOf(cache, last.uri) # <<>>
    /\ EntryOf(cache, last.uri)[1].value.tree.cells = docs[last.uri].text
    /\ EntryOf(cache, last.uri)[1].value.edits = <<>>


\* C18: a change notification that arrives while a getParseTree(uri) is
\* suspended on retrieve() adds its batch at the end of the edits of the
\* entry and leaves version and tree alone; the resumed request, when it
\* finds edits, reparses and folds all of them (or fails and drops the
\* entry); and version or tree of an entry change only in a _parse of its
\* URI that stores the version of the document and a newly parsed tree in
\* the same step.
C18_AtomicUnderInterleaving ==
    [][\A u \in DOMAIN docs :
        /\ (Changed(u) /\ pending # {} /\ attached /\ EntryOf(cache, u) # <<>>) =>
              /\ EntryOf(cache', u) # <<>>
              /\ Len(EntryOf(cache', u)[1].value.edits) =
                    Len(EntryOf(cache, u)[1].value.edits) + 1
              /\ IsPrefix(EntryOf(cache, u)[1].value.edits,
                          EntryOf(cache', u)[1].value.edits)
              /\ EntryOf(cache', u)[1].value.version = EntryOf(cache, u)[1].value.version
              /\ EntryOf(cache', u)[1].value.tree = EntryOf(cache, u)[1].value.tree
        /\ (/\ Resolved(u) /\ EntryOf(cache, u) # <<>>
            /\ EntryOf(cache, u)[1].value.edits # <<>>) =>
              /\ last'.path \in {"incremental", "failed"}
              /\ last'.path = "incremental" =>
                    /\ last'.folded = Flat(EntryOf(cache, u)[1].value.edits)
                    /\ EntryOf(cache', u)[1].value.edits = <<>>
              /\ last'.path = "failed" => EntryOf(cache', u) = <<>>
        /\ (/\ EntryOf(cache', u) # <<>>
            /\ \/ EntryOf(cache, u) = <<>>
               \/ EntryOf(cache, u)[1].value.version # EntryOf(cache', u)[1].value.version
               \/ EntryOf(cache, u)[1].value.tree # EntryOf(cache', u)[1].value.tree) =>
              /\ Called(u)
              /\ last'.path \in {"fresh", "incremental"}
              /\ EntryOf(cache', u)[1].value.version = docs[u].version
              /\ EntryOf(cache', u)[1].value.tree.id = nextTree
              /\ last'.tree = nextTree
              /\ nextTree' = nextTree + 1]_vars

\* a change arrived while getParseTree(uri) of the same document is suspended:
\* its batch is in the entry, after the batch that was there before
C18_Witness ==
    /\ attached
    /\ last.op = "change"
    /\ last.uri \in pending
    /\ EntryOf(cache, last.uri) # <<>>
    /\ Len(EntryOf(cache, last.uri)[1].value.edits) = 2


\* C19: the batch the listener pushes for a notification has one Edit per
\* change, in the order of the changes, with startIndex = rangeOffset,
\* oldEndIndex = rangeOffset + rangeLength, newEndIndex = rangeOffset + length
\* of the new text, start and old end positions those of the change's range,
\* and the new end position that of offset newEndIndex in the text of the
\* document after the notification; an insertion has oldEndIndex = startIndex
\* and a deletion newEndIndex = startIndex.
C19_EditTranslation ==
    [][\A u \in DOMAIN docs : \A changes \in Notifications(docs[u].text) :
        (DidChangeContent(u, changes) /\ attached /\ EntryOf(cache, u) # <<>>) =>
            LET edits == EntryOf(cache', u)[1].value.edits
                batch == edits[Len(edits)]
            IN  /\ Len(edits) = Len(EntryOf(cache, u)[1].value.edits) + 1
                /\ Len(batch) = Len(changes)
                /\ \A i \in 1..Len(changes) :
                    /\ batch[i].startIndex = changes[i].rangeOffset
                    /\ batch[i].oldEndIndex =
                          changes[i].rangeOffset + changes[i].rangeLength
                    /\ batch[i].newEndIndex =
                          changes[i].rangeOffset + Len(changes[i].text)
                    /\ batch[i].startPosition =
                          [row |-> changes[i].range.start.line,
                           column |-> changes[i].range.start.character]
                    /\ batch[i].oldEndPosition =
                          [row |-> changes[i].range.end.line,
                           column |-> changes[i].range.end.character]
                    /\ batch[i].newEndPosition =
                          [row |-> PositionAt(docs'[u].text, batch[i].newEndIndex).line,
                           column |-> PositionAt(docs'[u].text,
                                                 batch[i].newEndIndex).character]
                    /\ changes[i].rangeLength = 0 =>
                          batch[i].oldEndIndex = batch[i].startIndex
                    /\ changes[i].text = <<>> =>
                          batch[i].newEndIndex = batch[i].startIndex]_vars

\* the entry holds the batch of a notification with two changes: a text typed
\* at the start of the second line, and a deletion that joins the two lines
C19_Witness ==
    /\ last.op = "change"
    /\ EntryOf(cache, last.uri) # <<>>
    /\ \E i \in 1..Len(EntryOf(cache, last.uri)[1].value.edits) :
          LET batch == EntryOf(cache, last.uri)[1].value.edits[i]
          IN  /\ Len(batch) = 2
              /\ batch[1].startPosition = [row |-> 1, column |-> 0]
              /\ batch[1].newEndPosition.column = 1
              /\ batch[2].startPosition.row = 0
              /\ batch[2].oldEndPosition.row = 1
              /\ batch[2].newEndIndex = batch[2].startIndex


\* the ParseDone events of this step
FiredNow == IF pending' \subseteq pending THEN last'.fired ELSE <<>>

\* C20: a step fires as many ParseDone events as it has parsed trees; a
\* getParseTree that parses afresh or incrementally fires exactly one, for its
\* document and with the tree it returns; a cache hit, a failed parse, a
\* getParseTree(uri) of a missing document and every other operation fire
\* none.
C20_ParseDoneOncePerParse ==
    [][/\ Len(FiredNow) = nextTree' - nextTree
       /\ last'.op # "getParseTree" => FiredNow = <<>>
       /\ \A u \in DOMAIN docs \cup MissingUris :
            Called(u) =>
                /\ last'.path \in {"fresh", "incremental"} =>
                      /\ Len(last'.fired) = 1
                      /\ last'.fired[1].uri = u
                      /\ last'.fired[1].version = docs[u].version
                      /\ last'.fired[1].tree = last'.tree
                      /\ last'.tree # 0
                /\ last'.path \in {"hit", "failed", "missing"} => last'.fired = <<>>
                /\ last'.path \in {"fresh", "incremental", "hit", "failed", "missing"}]_vars

\* a cache hit on the tree of an incremental reparse fired nothing
C20_Witness ==
    /\ last.op = "getParseTree"
    /\ last.path = "hit"
    /\ last.fired = <<>>
    /\ last.tree = 2
    /\ released[1] = 1
    /\ nextTree = 3

====
